---- MODULE Spec2Model ----
(***************************************************************************)
(* Progressive-disclosure tool registry and dispatch facade of the        *)
(* Discord MCP server: ToolRegistry, RegistryAdapter, registerMetaTools    *)
(* and the start-up sequence of main().                                    *)
(*                                                                         *)
(* Strings that the code transforms (toLowerCase, includes) are sequences  *)
(* of one-character strings; strings the code only copies are TLA+ strings.*)
(***************************************************************************)
EXTENDS Integers, Sequences, FiniteSets, TLC

VARIABLES
    tools,            \* ToolRegistry.tools: Map name -> {info, handler}, in insertion order
    categories,       \* ToolRegistry.categories: Map name -> CategoryInfo, in insertion order
    toolsByCategory,  \* ToolRegistry.toolsByCategory: Map name -> string[], in insertion order
    serverTools,      \* tool names registered with the McpServer (protocol layer)
    pc,               \* position of main(): "registering", "metaRegistered", "serving"
    regLog,           \* history: the registerTool calls the registry has received
    response,         \* the result a discovery meta-tool is returning to the protocol layer
    calls,            \* execute_tool calls: position, handler invocations, log entries, outcome
    manager,          \* DiscordClientManager: client, connected, reconnectAttempts
    clients,          \* the discord.js Client objects, by the connect() call that created them
    reconnects,       \* the ShardDisconnect handler invocations, in event order
    owner,            \* position of the manager's owner: its connect() and disconnect() calls
    resumes           \* number of ShardResume events delivered so far

registryVars == <<tools, categories, toolsByCategory, serverTools, pc, regLog,
                  response, calls>>

clientVars == <<manager, clients, reconnects, owner, resumes>>

vars == <<tools, categories, toolsByCategory, serverTools, pc, regLog,
          response, calls, manager, clients, reconnects, owner, resumes>>

(***************************************************************************)
(* Bounds                                                                  *)
(***************************************************************************)
\* number of registerTool calls made during start-up
MaxRegs == 3

(***************************************************************************)
(* Strings                                                                 *)
(***************************************************************************)
\* the capital letters of Basic Latin and Latin-1 Supplement, the alphabet of
\* the strings of the model, and the letters toLowerCase maps them to
UpperChars == <<"A","B","C","D","E","F","G","H","I","J","K","L","M",
                 "N","O","P","Q","R","S","T","U","V","W","X","Y","Z",
                 "À","Á","Â","Ã","Ä","Å","Æ","Ç","È","É","Ê","Ë","Ì",
                 "Í","Î","Ï","Ð","Ñ","Ò","Ó","Ô","Õ","Ö","Ø","Ù","Ú",
                 "Û","Ü","Ý","Þ">>
LowerChars == <<"a","b","c","d","e","f","g","h","i","j","k","l","m",
                 "n","o","p","q","r","s","t","u","v","w","x","y","z",
                 "à","á","â","ã","ä","å","æ","ç","è","é","ê","ë","ì",
                 "í","î","ï","ð","ñ","ò","ó","ô","õ","ö","ø","ù","ú",
                 "û","ü","ý","þ">>

UpperToLower ==
    [c \in {UpperChars[i] : i \in 1..Len(UpperChars)} |->
        LowerChars[CHOOSE i \in 1..Len(UpperChars) : UpperChars[i] = c]]

\* String.prototype.toLowerCase on one character
lowerChar(c) == IF c \in DOMAIN UpperToLower THEN UpperToLower[c] ELSE c

\* String.prototype.toLowerCase
toLowerCase(s) == [i \in 1..Len(s) |-> lowerChar(s[i])]

\* String.prototype.includes: q occurs in s as a contiguous substring
includes(s, q) ==
    \E i \in 0..(Len(s) - Len(q)) : SubSeq(s, i + 1, i + Len(q)) = q

\* Array.prototype.slice(0, end) for an integer end
slice0(arr, end) ==
    LET n == Len(arr)
        e == IF end < 0 THEN (IF n + end < 0 THEN 0 ELSE n + end)
             ELSE (IF end > n THEN n ELSE end)
    IN  SubSeq(arr, 1, e)

(***************************************************************************)
(* Predeclared categories (initializeCategories)                           *)
(***************************************************************************)
c_messaging  == <<"m","e","s","s","a","g","i","n","g">>
c_channels   == <<"c","h","a","n","n","e","l","s">>
c_members    == <<"m","e","m","b","e","r","s">>
c_roles      == <<"r","o","l","e","s">>
c_server     == <<"s","e","r","v","e","r">>
c_moderation == <<"m","o","d","e","r","a","t","i","o","n">>
c_emojis     == <<"e","m","o","j","i","s">>
c_stickers   == <<"s","t","i","c","k","e","r","s">>
c_scheduled  == <<"s","c","h","e","d","u","l","e","d","-","e","v","e","n","t","s">>
c_automod    == <<"a","u","t","o","m","o","d">>
c_appcommands == <<"a","p","p","l","i","c","a","t","i","o","n","-",
                   "c","o","m","m","a","n","d","s">>

categoryDefs ==
    << [name |-> c_messaging,
        description |-> "Send, read, edit, delete messages. Add reactions, pin/unpin messages."],
       [name |-> c_channels,
        description |-> "Create, modify, delete channels. Manage text, voice, forum, stage channels and threads."],
       [name |-> c_members,
        description |-> "Get member info, list members, manage nicknames, assign/remove roles."],
       [name |-> c_roles,
        description |-> "Create, modify, delete roles. List roles and get role details."],
       [name |-> c_server,
        description |-> "Server info, settings, audit logs, webhooks, and invites."],
       [name |-> c_moderation,
        description |-> "Kick, ban, unban, timeout members. View ban list."],
       [name |-> c_emojis,
        description |-> "List, create, modify, delete custom emojis."],
       [name |-> c_stickers,
        description |-> "List, create, modify, delete custom stickers."],
       [name |-> c_scheduled,
        description |-> "Create, modify, delete scheduled events. List events and attendees."],
       [name |-> c_automod,
        description |-> "Create, modify, delete auto-moderation rules for content filtering."],
       [name |-> c_appcommands,
        description |-> "Manage slash commands and context menu commands for the bot."] >>

\* the keys of ToolRegistry.categories, fixed at construction
PredeclaredNames == {categoryDefs[i].name : i \in 1..Len(categoryDefs)}

(***************************************************************************)
(* Inputs                                                                  *)
(***************************************************************************)
n_ban  == <<"b","a","n">>
n_kick == <<"k","i","c","k">>
n_warn == <<"w","a","r","n">>
n_BAN  == <<"B","A","N">>
n_none == <<"n","o","n","e">>

\* Zod types, given by their internal definition (_def)
zString(checks) == [typeName |-> "ZodString", checks |-> checks]
zNumber(checks) == [typeName |-> "ZodNumber", checks |-> checks]
zBoolean == [typeName |-> "ZodBoolean"]
zOptional(inner) == [typeName |-> "ZodOptional", innerType |-> inner]
zDefault(inner, v) == [typeName |-> "ZodDefault", innerType |-> inner, defaultValue |-> v]
zNullable(inner) == [typeName |-> "ZodNullable", innerType |-> inner]
zEnum(values) == [typeName |-> "ZodEnum", values |-> values]
zArray(of, maxLength) == [typeName |-> "ZodArray", type |-> of, maxLength |-> [value |-> maxLength]]
zObject(shape) == [typeName |-> "ZodObject", shape |-> shape]
zUnion(options) == [typeName |-> "ZodUnion", options |-> options]
zDate == [typeName |-> "ZodDate"]
zDescribe(t, d) == [x \in DOMAIN t \cup {"description"} |->
                       IF x = "description" THEN d ELSE t[x]]

in_ban ==
    << [key |-> "userId", type |-> zDescribe(zString(<<>>), "User to ban")],
       [key |-> "days",
        type |-> zOptional(zNumber(<<[kind |-> "int"], [kind |-> "min", value |-> 0],
                                     [kind |-> "max", value |-> 7]>>))],
       [key |-> "reason",
        type |-> zDefault(zString(<<[kind |-> "max", value |-> 512]>>), "none")] >>
out_ban == << [key |-> "success", type |-> zBoolean] >>
in_kick ==
    << [key |-> "target",
        type |-> zUnion(<<zString(<<[kind |-> "min", value |-> 1]>>),
                          zObject(<<[key |-> "id", type |-> zString(<<>>)]>>)>>)],
       [key |-> "mode", type |-> zNullable(zEnum(<<"soft", "hard">>))] >>
out_kick == << [key |-> "success", type |-> zBoolean],
               [key |-> "at", type |-> zDate] >>
in_warn == << [key |-> "users", type |-> zArray(zString(<<>>), 10)] >>
out_warn == << >>

\* the domain tools a module may pass to registerTool: name, config.title,
\* config.description, config.inputSchema, config.outputSchema
d_ban ==
    [name |-> n_ban, title |-> <<"B","a","n">>,
     description |-> <<"b","l","o","c","k">>,
     inputSchema |-> in_ban, outputSchema |-> out_ban]
d_kick ==
    [name |-> n_kick, title |-> <<"K","i","c","k">>,
     description |-> <<"b","a","n"," ","x">>,
     inputSchema |-> in_kick, outputSchema |-> out_kick]
d_warn ==
    [name |-> n_warn, title |-> <<"S","c","a","n">>,
     description |-> <<"n","o","t","e">>,
     inputSchema |-> in_warn, outputSchema |-> out_warn]

\* category strings that are not predeclared
c_Moderation == <<"M","o","d","e","r","a","t","i","o","n">>
c_MODERATION == <<"M","O","D","E","R","A","T","I","O","N">>
c_unknown    == <<"u","n","k","n","o","w","n">>

\* the registerTool calls the domain modules may make: a tool and the category
\* of the adapter it is registered on
RegistrationInputs ==
    { <<d_ban, c_moderation>>, <<d_ban, c_messaging>>, <<d_ban, c_Moderation>>,
      <<d_kick, c_moderation>>, <<d_kick, c_messaging>>,
      <<d_warn, c_moderation>> }

\* category strings passed to listTools
CategoryQueries == {c_moderation, c_messaging, c_Moderation, c_MODERATION, c_unknown}

\* tool names passed to getToolSchema / getHandler
NameQueries == {n_ban, n_kick, n_warn, n_BAN, n_none}

\* search queries and limits passed to searchTools
Queries == { <<>>, <<"a","n">>, <<"B","A","N">>, <<"n">>, <<"z">> }
Limits  == {-1, 0, 1, 2}

\* searchTools' default for its limit parameter
DefaultLimit == 20

(***************************************************************************)
(* ToolRegistry                                                            *)
(***************************************************************************)
\* Map.prototype.has on an insertion-ordered map kept as a sequence of entries
mapHas(m, k) == \E i \in 1..Len(m) : m[i].name = k

\* the values null and undefined
Null == [null |-> TRUE]
Undefined == [undefined |-> TRUE]

\* Map.prototype.get; undefined when the key is absent
mapGet(m, k) ==
    IF mapHas(m, k) THEN m[CHOOSE i \in 1..Len(m) : m[i].name = k]
    ELSE Undefined

\* a set that leaves the value of an existing key as it was
mapSet_keepFirst(m, k, v) ==
    IF mapHas(m, k) THEN m ELSE Append(m, v)

\* a set that moves an existing key behind all the others
mapSet_moveToEnd(m, k, v) ==
    LET other(e) == e.name # k
    IN  Append(SelectSeq(m, other), v)

\* Map.prototype.set: an existing key keeps its position, a new key is appended
mapSet(m, k, v) ==
    IF mapHas(m, k)
    THEN [i \in 1..Len(m) |-> IF m[i].name = k THEN v ELSE m[i]]
    ELSE Append(m, v)

\* the constructor: initializeCategories
InitCategories ==
    [i \in 1..Len(categoryDefs) |->
        [name |-> categoryDefs[i].name, description |-> categoryDefs[i].description,
         toolCount |-> 0]]

InitToolsByCategory ==
    [i \in 1..Len(categoryDefs) |-> [name |-> categoryDefs[i].name, toolNames |-> <<>>]]

\* a push that replaces the category's list by the new name alone
pushTool_overwrite(category, name) ==
    mapSet(toolsByCategory, category, [name |-> category, toolNames |-> <<name>>])

\* categoryTools.push(name)
pushTool(category, name) ==
    mapSet(toolsByCategory, category,
           [name |-> category,
            toolNames |-> Append(mapGet(toolsByCategory, category).toolNames, name)])

\* catInfo.toolCount++
countTool(category) ==
    mapSet(categories, category,
           [mapGet(categories, category) EXCEPT !.toolCount = @ + 1])

\* registerTool with the toolCount increment left out
registerTool_noCount(name, category, title, description, inputSchema, outputSchema, handler) ==
    LET info == [name |-> name, title |-> title, description |-> description,
                 category |-> category, inputSchema |-> inputSchema,
                 outputSchema |-> outputSchema]
    IN  /\ tools' = mapSet(tools, name, [name |-> name, info |-> info, handler |-> handler])
        /\ IF mapHas(toolsByCategory, category)
           THEN /\ toolsByCategory' = pushTool(category, name)
                /\ UNCHANGED categories
           ELSE UNCHANGED <<toolsByCategory, categories>>
        /\ regLog' = Append(regLog, [name |-> name, category |-> category,
                                     handler |-> handler])

\* ToolRegistry.registerTool
registerTool(name, category, title, description, inputSchema, outputSchema, handler) ==
    LET info == [name |-> name, title |-> title, description |-> description,
                 category |-> category, inputSchema |-> inputSchema,
                 outputSchema |-> outputSchema]
    IN  /\ tools' = mapSet(tools, name, [name |-> name, info |-> info, handler |-> handler])
        /\ IF mapHas(toolsByCategory, category)
           THEN /\ toolsByCategory' = pushTool(category, name)
                /\ IF mapHas(categories, category)
                   THEN categories' = countTool(category)
                   ELSE UNCHANGED categories
           ELSE UNCHANGED <<toolsByCategory, categories>>
        /\ regLog' = Append(regLog, [name |-> name, category |-> category,
                                     handler |-> handler])

\* the filter predicate of listCategories
hasTools(cat) == cat.toolCount > 0

\* listCategories without its toolCount > 0 filter
listCategories_unfiltered == categories

\* ToolRegistry.listCategories
listCategories == SelectSeq(categories, hasTools)

\* ToolRegistry.listTools
listTools(category) ==
    LET key == toLowerCase(category)
    IN  IF ~mapHas(toolsByCategory, key) THEN <<>>
        ELSE LET toolNames == mapGet(toolsByCategory, key).toolNames
             IN  [i \in 1..Len(toolNames) |->
                    LET tool == mapGet(tools, toolNames[i])
                    IN  [name |-> toolNames[i],
                         description |-> IF tool = Undefined THEN <<>>
                                         ELSE tool.info.description]]

\* the score with the description test left out
score_noDescription(registered, queryLower) ==
      (IF includes(toLowerCase(registered.name), queryLower) THEN 3 ELSE 0)
    + (IF includes(toLowerCase(registered.info.title), queryLower) THEN 2 ELSE 0)

\* the relevance score searchTools gives one registered tool
score(registered, queryLower) ==
      (IF includes(toLowerCase(registered.name), queryLower) THEN 3 ELSE 0)
    + (IF includes(toLowerCase(registered.info.title), queryLower) THEN 2 ELSE 0)
    + (IF includes(toLowerCase(registered.info.description), queryLower) THEN 1 ELSE 0)

\* the results array searchTools builds: the tools of score > 0, in map order
RECURSIVE scan(_, _)
scan(i, queryLower) ==
    IF i > Len(tools) THEN <<>>
    ELSE LET sc   == score(tools[i], queryLower)
             rest == scan(i + 1, queryLower)
         IN  IF sc > 0
             THEN <<[score |-> sc,
                     tool |-> [name |-> tools[i].name,
                               description |-> tools[i].info.description]]>> \o rest
             ELSE rest

\* Array.prototype.sort((a, b) => b.score - a.score): stable, descending by score
RECURSIVE insertByScore(_, _)
insertByScore(sorted, r) ==
    IF sorted = <<>> THEN <<r>>
    ELSE IF Head(sorted).score >= r.score
         THEN <<Head(sorted)>> \o insertByScore(Tail(sorted), r)
         ELSE <<r>> \o sorted

RECURSIVE sortByScore(_)
sortByScore(results) ==
    IF results = <<>> THEN <<>>
    ELSE insertByScore(sortByScore(SubSeq(results, 1, Len(results) - 1)),
                       results[Len(results)])

\* searchTools with its sort left out: the results stay in map order
searchTools_unsorted(query, limit) ==
    LET kept == slice0(scan(1, toLowerCase(query)), limit)
    IN  [i \in 1..Len(kept) |-> kept[i].tool]

\* ToolRegistry.searchTools
searchTools(query, limit) ==
    LET sorted == sortByScore(scan(1, toLowerCase(query)))
        kept   == slice0(sorted, limit)
    IN  [i \in 1..Len(kept) |-> kept[i].tool]

\* a lookup that ignores letter case
\* a getToolSchema that hands out the handler with the entry
getToolSchema_withHandler(toolName) ==
    LET registered == mapGet(tools, toolName)
    IN  IF registered = Undefined THEN Null
        ELSE [f \in DOMAIN registered.info \cup {"handler"} |->
                 IF f = "handler" THEN registered.handler ELSE registered.info[f]]

getToolSchema_ignoreCase(toolName) ==
    LET hits == {i \in 1..Len(tools) : toLowerCase(tools[i].name) = toLowerCase(toolName)}
    IN  IF hits = {} THEN Null ELSE tools[CHOOSE i \in hits : TRUE].info

\* ToolRegistry.getToolSchema
getToolSchema(toolName) ==
    LET registered == mapGet(tools, toolName)
    IN  IF registered = Undefined THEN Null ELSE registered.info

\* ToolRegistry.getHandler
getHandler(toolName) ==
    LET registered == mapGet(tools, toolName)
    IN  IF registered = Undefined THEN Null ELSE registered.handler

\* ToolRegistry.hasTool
hasTool(toolName) == mapHas(tools, toolName)

\* ToolRegistry.getAllToolNames
getAllToolNames == [i \in 1..Len(tools) |-> tools[i].name]


\* the object spread {...schema, ...extraProps}, and the assignment schema.k = v
spread(schema, extraProps) ==
    [x \in DOMAIN schema \cup DOMAIN extraProps |->
        IF x \in DOMAIN extraProps THEN extraProps[x] ELSE schema[x]]

\* the loop of handleZodString over def.checks
RECURSIVE stringChecks(_, _)
stringChecks(schema, checks) ==
    IF Len(checks) = 0 THEN schema
    ELSE LET check == Head(checks)
             s1 == IF check.kind = "max"
                   THEN spread(schema, [maxLength |-> check.value]) ELSE schema
             s2 == IF check.kind = "min"
                   THEN spread(s1, [minLength |-> check.value]) ELSE s1
         IN  stringChecks(s2, Tail(checks))

\* the loop of handleZodNumber over def.checks
RECURSIVE numberChecks(_, _)
numberChecks(schema, checks) ==
    IF Len(checks) = 0 THEN schema
    ELSE LET check == Head(checks)
             s1 == IF check.kind = "int"
                   THEN spread(schema, [type |-> "integer"]) ELSE schema
             s2 == IF check.kind = "min"
                   THEN spread(s1, [minimum |-> check.value]) ELSE s1
             s3 == IF check.kind = "max"
                   THEN spread(s2, [maximum |-> check.value]) ELSE s2
         IN  numberChecks(s3, Tail(checks))

\* the characters of the type names of zod (ZodFirstPartyTypeKind)
ZodTypeNames ==
    { <<"Z","o","d","S","t","r","i","n","g">>,
      <<"Z","o","d","N","u","m","b","e","r">>,
      <<"Z","o","d","N","a","N">>,
      <<"Z","o","d","B","i","g","I","n","t">>,
      <<"Z","o","d","B","o","o","l","e","a","n">>,
      <<"Z","o","d","D","a","t","e">>,
      <<"Z","o","d","S","y","m","b","o","l">>,
      <<"Z","o","d","U","n","d","e","f","i","n","e","d">>,
      <<"Z","o","d","N","u","l","l">>,
      <<"Z","o","d","A","n","y">>,
      <<"Z","o","d","U","n","k","n","o","w","n">>,
      <<"Z","o","d","N","e","v","e","r">>,
      <<"Z","o","d","V","o","i","d">>,
      <<"Z","o","d","A","r","r","a","y">>,
      <<"Z","o","d","O","b","j","e","c","t">>,
      <<"Z","o","d","U","n","i","o","n">>,
      <<"Z","o","d","D","i","s","c","r","i","m","i","n","a","t","e","d","U","n","i","o","n">>,
      <<"Z","o","d","I","n","t","e","r","s","e","c","t","i","o","n">>,
      <<"Z","o","d","T","u","p","l","e">>,
      <<"Z","o","d","R","e","c","o","r","d">>,
      <<"Z","o","d","M","a","p">>,
      <<"Z","o","d","S","e","t">>,
      <<"Z","o","d","F","u","n","c","t","i","o","n">>,
      <<"Z","o","d","L","a","z","y">>,
      <<"Z","o","d","L","i","t","e","r","a","l">>,
      <<"Z","o","d","E","n","u","m">>,
      <<"Z","o","d","E","f","f","e","c","t","s">>,
      <<"Z","o","d","N","a","t","i","v","e","E","n","u","m">>,
      <<"Z","o","d","O","p","t","i","o","n","a","l">>,
      <<"Z","o","d","N","u","l","l","a","b","l","e">>,
      <<"Z","o","d","D","e","f","a","u","l","t">>,
      <<"Z","o","d","C","a","t","c","h">>,
      <<"Z","o","d","P","r","o","m","i","s","e">>,
      <<"Z","o","d","B","r","a","n","d","e","d">>,
      <<"Z","o","d","P","i","p","e","l","i","n","e">>,
      <<"Z","o","d","R","e","a","d","o","n","l","y">> }

\* the string made of the characters of a sequence
RECURSIVE join(_)
join(cs) == IF cs = <<>> THEN "" ELSE Head(cs) \o join(Tail(cs))

\* the characters of a type name
chars(typeName) == CHOOSE cs \in ZodTypeNames : join(cs) = typeName

\* String.prototype.replace(pattern, replacement) with a string pattern: the
\* first occurrence is replaced, a string without one is returned as it is
replace(s, pattern, replacement) ==
    IF includes(s, pattern)
    THEN LET i == CHOOSE i \in 0..(Len(s) - Len(pattern)) :
                     /\ SubSeq(s, i + 1, i + Len(pattern)) = pattern
                     /\ \A j \in 0..(i - 1) : SubSeq(s, j + 1, j + Len(pattern)) # pattern
         IN  SubSeq(s, 1, i) \o replacement \o SubSeq(s, i + Len(pattern) + 1, Len(s))
    ELSE s

\* typeName.replace("Zod", "").toLowerCase()
fallbackKind(typeName) ==
    join(toLowerCase(replace(chars(typeName), <<"Z", "o", "d">>, <<>>)))

RECURSIVE zodToJsonSchema(_)
RECURSIVE serializeSchema(_)

\* ToolRegistry.zodToJsonSchema, with handleZodString, handleZodNumber,
\* handleZodArray and handleZodWrapper
zodToJsonSchema(def) ==
    IF "typeName" \notin DOMAIN def THEN [type |-> "unknown"]
    ELSE
    LET typeName == def.typeName
        checks == IF "checks" \in DOMAIN def THEN def.checks ELSE <<>>
        schema ==
          CASE typeName = "ZodString" -> stringChecks([type |-> "string"], checks)
            [] typeName = "ZodNumber" -> numberChecks([type |-> "number"], checks)
            [] typeName = "ZodBoolean" -> [type |-> "boolean"]
            [] typeName = "ZodArray" ->
                 LET a0 == [type |-> "array", items |-> zodToJsonSchema(def.type)]
                     a1 == IF "maxLength" \in DOMAIN def
                           THEN spread(a0, [maxItems |-> def.maxLength.value]) ELSE a0
                 IN  IF "minLength" \in DOMAIN def
                     THEN spread(a1, [minItems |-> def.minLength.value]) ELSE a1
            [] typeName = "ZodObject" ->
                 [type |-> "object", properties |-> serializeSchema(def.shape)]
            [] typeName = "ZodOptional" ->
                 spread(zodToJsonSchema(def.innerType), [optional |-> TRUE])
            [] typeName = "ZodDefault" ->
                 spread(zodToJsonSchema(def.innerType), [default |-> def.defaultValue])
            [] typeName = "ZodEnum" -> [type |-> "string", enum |-> def.values]
            [] typeName = "ZodUnion" ->
                 [oneOf |-> [i \in 1..Len(def.options) |-> zodToJsonSchema(def.options[i])]]
            [] typeName = "ZodNullable" ->
                 spread(zodToJsonSchema(def.innerType), [nullable |-> TRUE])
            [] OTHER -> [type |-> fallbackKind(typeName)]
    IN  IF "description" \in DOMAIN def /\ def.description # ""
        THEN spread(schema, [description |-> def.description])
        ELSE schema

\* ToolRegistry.serializeSchema: one lowered entry per key of the schema
serializeSchema(schema) ==
    [k \in {schema[i].key : i \in 1..Len(schema)} |->
        zodToJsonSchema(schema[CHOOSE i \in 1..Len(schema) : schema[i].key = k].type)]


(***************************************************************************)
(* RegistryAdapter                                                         *)
(***************************************************************************)
\* an adapter that also registers the tool with the protocol layer
RegistryAdapter_registerTool_direct(category, name, config, handler) ==
    /\ registerTool(name, category, config.title, config.description,
                    config.inputSchema, config.outputSchema, handler)
    /\ serverTools' = Append(serverTools, name)

\* an adapter that forwards the config's description as the title and the
\* title as the description
RegistryAdapter_registerTool_swapped(category, name, config, handler) ==
    /\ registerTool(name, category, config.description, config.title,
                    config.inputSchema, config.outputSchema, handler)
    /\ serverTools' = serverTools

\* RegistryAdapter.registerTool of the adapter createRegistryAdapter(registry, category)
RegistryAdapter_registerTool(category, name, config, handler) ==
    /\ registerTool(name, category, config.title, config.description,
                    config.inputSchema, config.outputSchema, handler)
    /\ serverTools' = serverTools

(***************************************************************************)
(* Meta-tools (registerMetaTools)                                          *)
(***************************************************************************)
MetaToolNames ==
    <<"list_categories", "list_tools", "search_tools", "get_tool_schema", "execute_tool">>

\* a JavaScript string value, and a template literal given by its parts
str(x) == [str |-> x]
template(parts) == [template |-> parts]

textContent(t) == <<[type |-> "text", text |-> t]>>

\* whether a tool result carries isError: true
errorFlagged(result) == "isError" \in DOMAIN result /\ result.isError = TRUE

\* the list_categories handler
list_categories_handler ==
    LET cats == listCategories
    IN  [content |-> textContent(template(<<"Available categories:", cats>>)),
         structuredContent |-> [categories |-> cats]]

\* a list_tools handler that enumerates every predeclared category
list_tools_handler_allCategories(category) ==
    LET found == listTools(category)
    IN  IF Len(found) = 0
        THEN LET available == [i \in 1..Len(categories) |-> categories[i].name]
             IN  [content |-> textContent(template(
                        <<"Category '", category,
                          "' not found or has no tools. Available categories: ",
                          available>>)),
                  structuredContent |-> [tools |-> <<>>],
                  isError |-> TRUE]
        ELSE [content |-> textContent(template(<<"Tools in ", category, ":", found>>)),
              structuredContent |-> [tools |-> found]]

\* the list_tools handler
list_tools_handler(category) ==
    LET found == listTools(category)
    IN  IF Len(found) = 0
        THEN LET available == [i \in 1..Len(listCategories) |-> listCategories[i].name]
             IN  [content |-> textContent(template(
                        <<"Category '", category,
                          "' not found or has no tools. Available categories: ",
                          available>>)),
                  structuredContent |-> [tools |-> <<>>],
                  isError |-> TRUE]
        ELSE [content |-> textContent(template(<<"Tools in ", category, ":", found>>)),
              structuredContent |-> [tools |-> found]]

\* the inputSchema of search_tools: limit is
\* z.number().int().min(1).max(50).default(20)
MinLimit == 1
MaxLimit == 50
SchemaDefaultLimit == 20

\* what the protocol layer gets from parsing the caller's limit with that
\* schema before it calls the handler
limitSchema(limit) ==
    IF limit = Undefined
    THEN [success |-> TRUE, data |-> [num |-> SchemaDefaultLimit]]
    ELSE IF limit.num >= MinLimit /\ limit.num <= MaxLimit
         THEN [success |-> TRUE, data |-> limit]
         ELSE [success |-> FALSE]

\* (limit as number) || 20: undefined and 0 are falsy
limitOrDefault(limit) ==
    IF limit = Undefined THEN DefaultLimit
    ELSE IF limit.num = 0 THEN DefaultLimit ELSE limit.num

\* a search_tools handler that flags an empty result as an error
search_tools_handler_flagged(query, limit) ==
    LET found == searchTools(query, limitOrDefault(limit))
    IN  IF Len(found) = 0
        THEN [content |-> textContent(template(
                    <<"No tools found matching '", query,
                      "'. Try a different search term or use list_categories to browse.">>)),
              structuredContent |-> [tools |-> <<>>],
              isError |-> TRUE]
        ELSE [content |-> textContent(template(
                    <<"Found ", Len(found), " tool(s) matching '", query, "':", found>>)),
              structuredContent |-> [tools |-> found]]

\* the search_tools handler
search_tools_handler(query, limit) ==
    LET found == searchTools(query, limitOrDefault(limit))
    IN  IF Len(found) = 0
        THEN [content |-> textContent(template(
                    <<"No tools found matching '", query,
                      "'. Try a different search term or use list_categories to browse.">>)),
              structuredContent |-> [tools |-> <<>>]]
        ELSE [content |-> textContent(template(
                    <<"Found ", Len(found), " tool(s) matching '", query, "':", found>>)),
              structuredContent |-> [tools |-> found]]

\* a get_tool_schema handler with a not-found text of its own
get_tool_schema_handler_ownText(toolName) ==
    LET schema == getToolSchema(toolName)
    IN  IF schema = Null
        THEN [content |-> textContent(template(<<"Unknown tool: ", toolName>>)),
              isError |-> TRUE]
        ELSE [content |-> textContent(template(<<"## ", schema.title>>)),
              structuredContent |-> [name |-> schema.name]]

\* the get_tool_schema handler
get_tool_schema_handler(toolName) ==
    LET schema == getToolSchema(toolName)
    IN  IF schema = Null
        THEN [content |-> textContent(template(
                    <<"Tool '", toolName,
                      "' not found. Use search_tools or list_tools to find valid tool names.">>)),
              isError |-> TRUE]
        ELSE LET serializedInput == serializeSchema(schema.inputSchema)
                 serializedOutput == serializeSchema(schema.outputSchema)
             IN  [content |-> textContent(template(
                        <<"## ", schema.title, schema.description, "**Category:** ",
                          schema.category, "**Input Parameters:**", serializedInput,
                          "**Output:**", serializedOutput>>)),
                  structuredContent |->
                      [name |-> schema.name, title |-> schema.title,
                       description |-> schema.description, category |-> schema.category,
                       inputSchema |-> serializedInput,
                       outputSchema |-> serializedOutput]]

\* the not-found result without its error flag
execute_tool_notFound_unflagged(toolName) ==
    [content |-> textContent(template(
          <<"Tool '", toolName,
            "' not found. Use search_tools or list_tools to find valid tool names.">>)),
     structuredContent |->
         [success |-> FALSE, error |-> template(<<"Tool '", toolName, "' not found">>)]]

\* execute_tool: the result for a name getHandler does not know
execute_tool_notFound(toolName) ==
    [content |-> textContent(template(
          <<"Tool '", toolName,
            "' not found. Use search_tools or list_tools to find valid tool names.">>)),
     structuredContent |->
         [success |-> FALSE, error |-> template(<<"Tool '", toolName, "' not found">>)],
     isError |-> TRUE]

\* values a handler may throw or reject with
e_Error  == [kind |-> "Error", message |-> str("boom")]
e_string == str("oops")
Thrown == {e_Error, e_string, Null, Undefined}

\* the property read error.message: a TypeError on null and undefined,
\* undefined on a value without that property
TypeError == [kind |-> "TypeError"]
readsMessage(error) == error # Null /\ error # Undefined
messageOf(error) == IF "message" \in DOMAIN error THEN error.message ELSE Undefined

\* execute_tool: the result its catch block returns
execute_tool_caught(message) ==
    [content |-> textContent(template(<<"Tool execution failed: ", message>>)),
     structuredContent |-> [success |-> FALSE, error |-> message],
     isError |-> TRUE]

\* results a handler may return
r_ok ==
    [content |-> textContent(str("Message sent")),
     structuredContent |-> [success |-> TRUE, messageId |-> str("msg-1")]]
r_fail ==
    [content |-> textContent(str("Channel not found: bad")),
     structuredContent |-> [success |-> FALSE, error |-> str("Channel not found: bad")],
     isError |-> TRUE]
r_plain == [content |-> textContent(str("ok"))]
HandlerResults == {r_ok, r_fail, r_plain}

\* parameter bags passed to execute_tool
p_hi  == [channelId |-> "123", content |-> "hi"]
p_bad == [channelId |-> "bad"]
ParamBags == {p_hi, p_bad}

\* tool names passed to execute_tool
ExecNames == {n_ban, n_kick, n_none}

\* execute_tool calls the transport may have in flight
CallIds == {"call1", "call2"}


(***************************************************************************)
(* Logger                                                                  *)
(***************************************************************************)
\* the levels array of shouldLog
levels == <<"debug", "info", "warn", "error">>

\* levels.indexOf(level): the position counted from 0, -1 when absent
indexOf(level) ==
    IF \E i \in 1..Len(levels) : levels[i] = level
    THEN (CHOOSE i \in 1..Len(levels) : levels[i] = level) - 1
    ELSE -1

\* the levels a logger may be constructed with: LOG_LEVEL is passed on as it
\* is, so a string outside the array is among them
ConfiguredLevels == {levels[i] : i \in 1..Len(levels)} \cup {"verbose"}

\* Logger.shouldLog of a logger constructed with the level configured
shouldLog(configured, level) == indexOf(level) >= indexOf(configured)

\* the entries Logger.log writes out of the logger calls made
written(configured, log) ==
    LET passes(entry) == shouldLog(configured, entry.level)
    IN  SelectSeq(log, passes)

(***************************************************************************)
(* execute_tool                                                            *)
(***************************************************************************)
IdleCall == [state |-> "idle"]

\* a call that invokes the handler a second time (a retry)
invokedCall_retry(toolName, params, handler) ==
    [state |-> "awaiting", toolName |-> toolName, params |-> params,
     invoked |-> <<[handler |-> handler, params |-> params],
                   [handler |-> handler, params |-> params]>>,
     log |-> <<[level |-> "info", message |-> "Executing tool",
                context |-> [toolName |-> toolName, params |-> params]]>>,
     settled |-> Undefined, result |-> Undefined, exception |-> Undefined]

\* the call once execute_tool has resolved a handler, logged and invoked it
invokedCall(toolName, params, handler) ==
    [state |-> "awaiting", toolName |-> toolName, params |-> params,
     invoked |-> <<[handler |-> handler, params |-> params]>>,
     log |-> <<[level |-> "info", message |-> "Executing tool",
                context |-> [toolName |-> toolName, params |-> params]]>>,
     settled |-> Undefined, result |-> Undefined, exception |-> Undefined]

\* a return that rebuilds the result and sets the error flag itself
execute_tool_return_wrapped(call, result) ==
    [call EXCEPT !.state = "returned",
                 !.result = [content |-> result.content,
                             structuredContent |-> [success |-> TRUE],
                             isError |-> FALSE]]

\* return result: the handler's result is what execute_tool returns
execute_tool_return(call, result) ==
    [call EXCEPT !.state = "returned", !.result = result]

\* the catch block: read error.message, log it, return the error result
execute_tool_catch(call, error) ==
    IF readsMessage(error)
    THEN [call EXCEPT
            !.state = "returned",
            !.log = Append(@, [level |-> "error", message |-> "Tool execution failed",
                               context |-> [toolName |-> call.toolName,
                                            error |-> messageOf(error)]]),
            !.result = execute_tool_caught(messageOf(error))]
    ELSE [call EXCEPT !.state = "threw", !.exception = TypeError]

\* execute_tool from its entry to its first await or return.  sync is what the
\* call handler(params) does before it hands back a promise.
execute_tool(toolName, params, sync) ==
    LET handler == getHandler(toolName)
    IN  IF handler = Null
        THEN [state |-> "returned", toolName |-> toolName, params |-> params,
              invoked |-> <<>>, log |-> <<>>, settled |-> Undefined,
              result |-> execute_tool_notFound(toolName), exception |-> Undefined]
        ELSE IF sync.kind = "throw"
             THEN execute_tool_catch(
                      [invokedCall(toolName, params, handler) EXCEPT !.settled = sync],
                      sync.value)
             ELSE invokedCall(toolName, params, handler)

(***************************************************************************)
(* DiscordClientManager                                                    *)
(***************************************************************************)
\* options.maxReconnectAttempts
maxReconnectAttempts == 2

\* ShardDisconnect and ShardResume events the gateway delivers
MaxDisconnects == 2
MaxResumes == 1

\* the fields after the constructor
InitManager == [client |-> Null, connected |-> FALSE, reconnectAttempts |-> 0]

\* the connect() calls that create Client objects: the owner's (0) and the one
\* of each reconnect sequence.  A client is named after the call that created
\* it; a call that creates another client has seen the login of its last one
\* fail, and the record then describes the newer client.
ByOwner == 0
Creators == 0..MaxDisconnects

NoClient == [login |-> "none", destroyed |-> FALSE]
InitClients == [k \in Creators |-> NoClient]

\* new Client(...) with the event handlers set up and login(token) called
NewClient == [login |-> "pending", destroyed |-> FALSE]

\* the clients whose shard events reach the manager: connect() installs the
\* handlers on a client before login(token) is called and nothing removes
\* them, neither a failed login nor disconnect(), so every client that has
\* been created counts, logged in or not, destroyed or not
Live == {k \in Creators : clients[k].login # "none"}

\* the clients whose login(token) promise has not settled
LoggingIn == {k \in Creators : clients[k].login = "pending"}

\* connect() from its entry to its early return or to await this.client.login
connect_returnsAtOnce == manager.connected

connect_manager(by) == [manager EXCEPT !.client = [client |-> by]]

connect_clients(by) == [clients EXCEPT ![by] = NewClient]

\* a connect() that leaves the attempt counter as it is
connect_resolved_counting(m) == [m EXCEPT !.connected = TRUE]

\* connect() after the login resolved: connected = true, reconnectAttempts = 0
connect_resolved(m) == [m EXCEPT !.connected = TRUE, !.reconnectAttempts = 0]

\* a reconnect sequence: one ShardDisconnect handler invocation
NewReconnect == [state |-> "handler", made |-> 0, end |-> Undefined]

\* what the manager looks like when a sequence ends
Snapshot(m) == [connected |-> m.connected, reconnectAttempts |-> m.reconnectAttempts]

\* attemptReconnect from its entry to its throw or to the await of the backoff
\* timer; made counts the attempts of the sequence
attemptReconnect(m, seq) ==
    IF m.reconnectAttempts >= maxReconnectAttempts
    THEN [manager |-> m, seq |-> [seq EXCEPT !.state = "failed", !.end = Snapshot(m)]]
    ELSE [manager |-> [m EXCEPT !.reconnectAttempts = @ + 1],
          seq |-> [seq EXCEPT !.state = "backoff", !.made = @ + 1]]

\* disconnect()
disconnect_manager ==
    IF manager.client = Null THEN manager
    ELSE [manager EXCEPT !.client = Null, !.connected = FALSE]

disconnect_clients ==
    IF manager.client = Null THEN clients
    ELSE [clients EXCEPT ![manager.client.client].destroyed = TRUE]

\* isConnected()
isConnected == manager.connected /\ manager.client # Null

\* getClient(): throws DiscordNotConnectedError unless connected with a client
DiscordNotConnectedError == [kind |-> "DiscordNotConnectedError"]

getClient ==
    IF manager.client = Null \/ ~manager.connected
    THEN [throws |-> DiscordNotConnectedError]
    ELSE [returns |-> manager.client]

(***************************************************************************)
(* State machine                                                           *)
(***************************************************************************)
NoResponse == [op |-> "none"]

Init ==
    /\ tools = <<>>
    /\ categories = InitCategories
    /\ toolsByCategory = InitToolsByCategory
    /\ serverTools = <<>>
    /\ pc = "registering"
    /\ regLog = <<>>
    /\ response = NoResponse
    /\ calls = [c \in CallIds |-> IdleCall]
    /\ manager = InitManager
    /\ clients = InitClients
    /\ reconnects = <<>>
    /\ owner = "created"
    /\ resumes = 0

\* main: one registerTool call of a domain module on its adapter
AdapterRegister(inputs) ==
    /\ pc = "registering"
    /\ Len(regLog) < MaxRegs
    /\ \E in \in inputs :
          RegistryAdapter_registerTool(in[2], in[1].name, in[1],
                                       [id |-> Len(regLog) + 1])
    /\ UNCHANGED <<pc, response, calls, clientVars>>

RegisterDomainTool == AdapterRegister(RegistrationInputs)

\* main: registerMetaTools(mcpServer, registry, logger)
registerMetaTools ==
    /\ pc = "registering"
    /\ serverTools' = serverTools \o MetaToolNames
    /\ pc' = "metaRegistered"
    /\ UNCHANGED <<tools, categories, toolsByCategory, regLog, response, calls, clientVars>>

\* a main that connects the transport before the meta-tools are registered
ConnectTransport_early ==
    /\ pc = "registering"
    /\ pc' = "serving"
    /\ UNCHANGED <<tools, categories, toolsByCategory, serverTools, regLog,
                   response, calls, clientVars>>

\* main: mcpServer.connect(transport); requests are served from here on
ConnectTransport ==
    /\ pc = "metaRegistered"
    /\ pc' = "serving"
    /\ UNCHANGED <<tools, categories, toolsByCategory, serverTools, regLog,
                   response, calls, clientVars>>

ListCategoriesRequest ==
    /\ pc = "serving"
    /\ response = NoResponse
    /\ response' = [op |-> "list_categories", result |-> list_categories_handler]
    /\ UNCHANGED <<tools, categories, toolsByCategory, serverTools, pc, regLog, calls, clientVars>>

\* a list_tools that empties the category index as it reads it
ListToolsRequest_draining ==
    /\ pc = "serving"
    /\ response = NoResponse
    /\ \E category \in CategoryQueries :
          response' = [op |-> "list_tools", category |-> category,
                       result |-> list_tools_handler(category)]
    /\ toolsByCategory' = InitToolsByCategory
    /\ UNCHANGED <<tools, categories, serverTools, pc, regLog, calls, clientVars>>

ListToolsRequest ==
    /\ pc = "serving"
    /\ response = NoResponse
    /\ \E category \in CategoryQueries :
          response' = [op |-> "list_tools", category |-> category,
                       result |-> list_tools_handler(category)]
    /\ UNCHANGED <<tools, categories, toolsByCategory, serverTools, pc, regLog, calls, clientVars>>

\* the limit arguments of search_tools requests: the limits passed to the
\* registry, the two ends of the range the schema accepts, and none
LimitArgs ==
    {[num |-> l] : l \in Limits \cup {MaxLimit, MaxLimit + 1}} \cup {Undefined}

\* a search_tools request: the protocol layer parses the arguments with the
\* inputSchema and calls the handler with the parsed limit, or answers that
\* the arguments are invalid without calling it
SearchToolsRequest ==
    /\ pc = "serving"
    /\ response = NoResponse
    /\ \E query \in Queries, limit \in LimitArgs :
          IF limitSchema(limit).success
          THEN response' = [op |-> "search_tools", query |-> query, limit |-> limit,
                            result |-> search_tools_handler(query, limitSchema(limit).data)]
          ELSE response' = [op |-> "invalid_params", tool |-> "search_tools",
                            limit |-> limit, result |-> Undefined]
    /\ UNCHANGED <<tools, categories, toolsByCategory, serverTools, pc, regLog, calls, clientVars>>

GetToolSchemaRequest ==
    /\ pc = "serving"
    /\ response = NoResponse
    /\ \E toolName \in NameQueries :
          response' = [op |-> "get_tool_schema", toolName |-> toolName,
                       result |-> get_tool_schema_handler(toolName)]
    /\ UNCHANGED <<tools, categories, toolsByCategory, serverTools, pc, regLog, calls, clientVars>>

\* the protocol layer sends the result to the client
Respond ==
    /\ response # NoResponse
    /\ response' = NoResponse
    /\ UNCHANGED <<tools, categories, toolsByCategory, serverTools, pc, regLog, calls, clientVars>>

Next ==
    \/ RegisterDomainTool
    \/ registerMetaTools
    \/ ConnectTransport
    \/ ListCategoriesRequest
    \/ ListToolsRequest
    \/ SearchToolsRequest
    \/ GetToolSchemaRequest
    \/ Respond

Spec == Init /\ [][Next]_vars

(***************************************************************************)
(* Dispatch: start-up with the moderation module alone, then execute_tool  *)
(***************************************************************************)
RegisterModerationTool ==
    AdapterRegister({<<d_ban, c_moderation>>, <<d_kick, c_moderation>>})

Pending == [kind |-> "pending"]

\* execute_tool with a name the registry does not know
ExecuteUnknownFor(ids) ==
    /\ pc = "serving"
    /\ \E c \in ids, toolName \in ExecNames, params \in ParamBags :
          /\ calls[c].state = "idle"
          /\ getHandler(toolName) = Null
          /\ calls' = [calls EXCEPT ![c] = execute_tool(toolName, params, Pending)]
    /\ UNCHANGED <<tools, categories, toolsByCategory, serverTools, pc, regLog, response, clientVars>>

ExecuteUnknown == ExecuteUnknownFor(CallIds)

\* execute_tool reaches await handler(params)
ExecuteInvokeFor(ids) ==
    /\ pc = "serving"
    /\ \E c \in ids, toolName \in ExecNames, params \in ParamBags :
          /\ calls[c].state = "idle"
          /\ getHandler(toolName) # Null
          /\ calls' = [calls EXCEPT ![c] = execute_tool(toolName, params, Pending)]
    /\ UNCHANGED <<tools, categories, toolsByCategory, serverTools, pc, regLog, response, clientVars>>

ExecuteInvoke == ExecuteInvokeFor(CallIds)

\* execute_tool whose handler throws before returning a promise
ExecuteSyncThrowFor(ids) ==
    /\ pc = "serving"
    /\ \E c \in ids, toolName \in ExecNames, params \in ParamBags, e \in Thrown :
          /\ calls[c].state = "idle"
          /\ getHandler(toolName) # Null
          /\ calls' = [calls EXCEPT ![c] =
                          execute_tool(toolName, params, [kind |-> "throw", value |-> e])]
    /\ UNCHANGED <<tools, categories, toolsByCategory, serverTools, pc, regLog, response, clientVars>>

ExecuteSyncThrow == ExecuteSyncThrowFor(CallIds)

\* the awaited promise fulfils
HandlerResolvesFor(ids) ==
    /\ \E c \in ids, r \in HandlerResults :
          /\ calls[c].state = "awaiting"
          /\ calls' = [calls EXCEPT ![c] =
                          execute_tool_return(
                              [calls[c] EXCEPT !.settled = [kind |-> "return", value |-> r]],
                              r)]
    /\ UNCHANGED <<tools, categories, toolsByCategory, serverTools, pc, regLog, response, clientVars>>

HandlerResolves == HandlerResolvesFor(CallIds)

\* the awaited promise rejects
HandlerRejectsFor(ids) ==
    /\ \E c \in ids, e \in Thrown :
          /\ calls[c].state = "awaiting"
          /\ calls' = [calls EXCEPT ![c] =
                          execute_tool_catch(
                              [calls[c] EXCEPT !.settled = [kind |-> "reject", value |-> e]],
                              e)]
    /\ UNCHANGED <<tools, categories, toolsByCategory, serverTools, pc, regLog, response, clientVars>>

HandlerRejects == HandlerRejectsFor(CallIds)

NextDispatch ==
    \/ RegisterModerationTool
    \/ registerMetaTools
    \/ ConnectTransport
    \/ ExecuteUnknown
    \/ ExecuteInvoke
    \/ ExecuteSyncThrow
    \/ HandlerResolves
    \/ HandlerRejects

SpecDispatch == Init /\ [][NextDispatch]_vars

(***************************************************************************)
(* Serving: start-up with the moderation module alone, then the five       *)
(* meta-tools side by side: discovery requests, a request sent a second    *)
(* time, and execute_tool calls in flight                                  *)
(***************************************************************************)
\* the handler of the request that r answers, run in the present state
Answer(r) ==
    CASE r.op = "list_categories" -> list_categories_handler
      [] r.op = "list_tools" -> list_tools_handler(r.category)
      [] r.op = "search_tools" ->
            search_tools_handler(r.query, limitSchema(r.limit).data)
      [] r.op = "invalid_params" -> Undefined
      [] r.op = "get_tool_schema" -> get_tool_schema_handler(r.toolName)

\* the client sends the request it holds the answer to a second time, with the
\* same arguments; the first answer is kept beside the second
RepeatRequest ==
    /\ pc = "serving"
    /\ response # NoResponse
    /\ "first" \notin DOMAIN response
    /\ response' = [f \in DOMAIN response \cup {"first"} |->
                        IF f = "first" THEN response.result
                        ELSE IF f = "result" THEN Answer(response)
                        ELSE response[f]]
    /\ UNCHANGED <<tools, categories, toolsByCategory, serverTools, pc, regLog, calls, clientVars>>

\* the execute_tool calls in flight beside the discovery requests
ServeCallIds == {"call1"}

ServeExecuteUnknown == ExecuteUnknownFor(ServeCallIds)
ServeExecuteInvoke == ExecuteInvokeFor(ServeCallIds)
ServeExecuteSyncThrow == ExecuteSyncThrowFor(ServeCallIds)
ServeHandlerResolves == HandlerResolvesFor(ServeCallIds)
ServeHandlerRejects == HandlerRejectsFor(ServeCallIds)

NextServe ==
    \/ RegisterModerationTool
    \/ registerMetaTools
    \/ ConnectTransport
    \/ ListCategoriesRequest
    \/ ListToolsRequest
    \/ SearchToolsRequest
    \/ GetToolSchemaRequest
    \/ RepeatRequest
    \/ Respond
    \/ ServeExecuteUnknown
    \/ ServeExecuteInvoke
    \/ ServeExecuteSyncThrow
    \/ ServeHandlerResolves
    \/ ServeHandlerRejects

SpecServe == Init /\ [][NextServe]_vars

(***************************************************************************)
(* Client manager: the owner's connect() and disconnect(), the gateway's   *)
(* shard events, the backoff timers and the login outcomes                 *)
(***************************************************************************)
\* main: await discordManager.connect(), up to the await of the login
OwnerConnect ==
    /\ owner = "created"
    /\ IF connect_returnsAtOnce
       THEN /\ owner' = "connected"
            /\ UNCHANGED <<manager, clients>>
       ELSE /\ manager' = connect_manager(ByOwner)
            /\ clients' = connect_clients(ByOwner)
            /\ owner' = "connecting"
    /\ UNCHANGED <<reconnects, resumes, registryVars>>

\* a login(token) promise fulfils and the connect() awaiting it returns
LoginResolves ==
    /\ \E k \in LoggingIn :
          /\ clients' = [clients EXCEPT ![k].login = "ok"]
          /\ manager' = connect_resolved(manager)
          /\ IF k = ByOwner
             THEN /\ owner' = "connected"
                  /\ UNCHANGED reconnects
             ELSE /\ reconnects' =
                        [reconnects EXCEPT ![k] =
                            [@ EXCEPT !.state = "connected",
                                      !.end = Snapshot(connect_resolved(manager))]]
                  /\ UNCHANGED owner
    /\ UNCHANGED <<resumes, registryVars>>

\* a login(token) promise rejects: connect() throws, to the owner or into the
\* catch block of attemptReconnect, which calls attemptReconnect again
LoginRejects ==
    /\ \E k \in LoggingIn :
          /\ clients' = [clients EXCEPT ![k].login = "failed"]
          /\ IF k = ByOwner
             THEN /\ owner' = "failed"
                  /\ UNCHANGED <<manager, reconnects>>
             ELSE LET r == attemptReconnect(manager, reconnects[k])
                  IN  /\ manager' = r.manager
                      /\ reconnects' = [reconnects EXCEPT ![k] = r.seq]
                      /\ UNCHANGED owner
    /\ UNCHANGED <<resumes, registryVars>>

\* a created client emits ShardDisconnect: connected = false, attemptReconnect()
ShardDisconnect ==
    /\ Live # {}
    /\ Len(reconnects) < MaxDisconnects
    /\ LET r == attemptReconnect([manager EXCEPT !.connected = FALSE], NewReconnect)
       IN  /\ manager' = r.manager
           /\ reconnects' = Append(reconnects, r.seq)
    /\ UNCHANGED <<clients, owner, resumes, registryVars>>

\* a created client emits ShardResume: connected = true, reconnectAttempts = 0
ShardResume ==
    /\ Live # {}
    /\ resumes < MaxResumes
    /\ manager' = [manager EXCEPT !.connected = TRUE, !.reconnectAttempts = 0]
    /\ resumes' = resumes + 1
    /\ UNCHANGED <<clients, reconnects, owner, registryVars>>

\* a backoff timer fires and attemptReconnect calls connect()
BackoffElapses ==
    /\ \E s \in 1..Len(reconnects) :
          /\ reconnects[s].state = "backoff"
          /\ IF connect_returnsAtOnce
             THEN /\ reconnects' = [reconnects EXCEPT ![s] =
                                       [@ EXCEPT !.state = "connected",
                                                 !.end = Snapshot(manager)]]
                  /\ UNCHANGED <<manager, clients>>
             ELSE /\ manager' = connect_manager(s)
                  /\ clients' = connect_clients(s)
                  /\ reconnects' = [reconnects EXCEPT ![s].state = "login"]
    /\ UNCHANGED <<owner, resumes, registryVars>>

\* the owner calls disconnect()
OwnerDisconnect ==
    /\ owner = "connected"
    /\ manager' = disconnect_manager
    /\ clients' = disconnect_clients
    /\ owner' = "disconnected"
    /\ UNCHANGED <<reconnects, resumes, registryVars>>

NextClient ==
    \/ OwnerConnect
    \/ LoginResolves
    \/ LoginRejects
    \/ ShardDisconnect
    \/ ShardResume
    \/ BackoffElapses
    \/ OwnerDisconnect

SpecClient == Init /\ [][NextClient]_vars

\* timers fire and login promises settle
SpecClientFair ==
    /\ SpecClient
    /\ WF_vars(BackoffElapses)
    /\ WF_vars(LoginResolves \/ LoginRejects)


(***************************************************************************)
(* Properties                                                              *)
(***************************************************************************)
\* q occurs in s at some offset
OccursIn(s, q) ==
    \E a \in 0..Len(s) :
        /\ a + Len(q) <= Len(s)
        /\ \A k \in 1..Len(q) : s[a + k] = q[k]

\* q occurs in s as a contiguous substring, letter case ignored
ContainsCI(s, q) == OccursIn(toLowerCase(s), toLowerCase(q))

NamesOf(summaries) == {summaries[i].name : i \in 1..Len(summaries)}

RegisteredUnder(c) == {j \in 1..Len(regLog) : regLog[j].category = c}

\* C1: a predeclared category appears in listCategories() iff at least one
\* registerTool call so far named that category.
CategoryVisibility ==
    \A c \in PredeclaredNames :
        (c \in NamesOf(listCategories)) <=> (RegisteredUnder(c) # {})

\* C1 witness: list_categories answered with one visible category while another
\* registration went to a category string that is not predeclared.
CategoryVisibilityWitness ==
    /\ response.op = "list_categories"
    /\ NamesOf(response.result.structuredContent.categories) = {c_moderation}
    /\ RegisteredUnder(c_Moderation) # {}

\* C2: every tool registered with name N and category Cat has, in every later
\* state, getToolSchema(N).category = Cat and an entry named N in listTools(Cat).
RoundTripRegistration ==
    \A j \in 1..Len(regLog) :
        /\ getToolSchema(regLog[j].name) # Null
        /\ getToolSchema(regLog[j].name).category = regLog[j].category
        /\ regLog[j].name \in NamesOf(listTools(regLog[j].category))

\* C3: each category's toolCount equals the number of entries indexed under it,
\* which is the number of entries listTools returns for it, in every state.
DerivedToolCount ==
    \A c \in PredeclaredNames :
        /\ mapGet(categories, c).toolCount = Len(mapGet(toolsByCategory, c).toolNames)
        /\ mapGet(categories, c).toolCount = Len(listTools(c))

\* C3 witness: a category that has counted two registrations.
DerivedToolCountWitness ==
    \E c \in PredeclaredNames :
        /\ mapGet(categories, c).toolCount = 2
        /\ Len(listTools(c)) = 2

\* C4: a tool registered under a category string is returned by listTools for
\* every query string that differs from that string only in letter case.
ListToolsCaseInsensitive ==
    \A j \in 1..Len(regLog), q \in CategoryQueries :
        toLowerCase(q) = toLowerCase(regLog[j].category)
            => regLog[j].name \in NamesOf(listTools(q))

\* C5: the protocol layer holds no tool before registerMetaTools and exactly
\* the 5 meta-tools after it, whatever was registered through adapters.
FiveMetaTools ==
    /\ pc = "registering" => serverTools = <<>>
    /\ pc # "registering" =>
          /\ Len(serverTools) = 5
          /\ serverTools = MetaToolNames

\* C5 witness: the server is serving with several domain tools in the registry.
FiveMetaToolsWitness ==
    /\ pc = "serving"
    /\ Len(tools) >= 2
    /\ Len(serverTools) = 5

\* the calls whose handler gave the outcome kind k
SettledAs(k) ==
    {c \in CallIds : /\ calls[c].state \in {"returned", "threw"}
                     /\ calls[c].settled # Undefined
                     /\ calls[c].settled.kind = k}

\* C6: when the handler returns a result, execute_tool returns exactly it.
DispatchPassthrough ==
    \A c \in SettledAs("return") :
        /\ calls[c].state = "returned"
        /\ calls[c].result = calls[c].settled.value

\* C6 witness: a business-level failure and a success have been passed through.
DispatchPassthroughWitness ==
    /\ \E c \in SettledAs("return") : calls[c].result = r_fail
    /\ \E c \in SettledAs("return") : calls[c].result = r_ok

\* C7: when the handler throws or rejects, execute_tool returns an
\* error-flagged result carrying {success: false, error: <message>}.
FaultContainment ==
    \A c \in SettledAs("throw") \cup SettledAs("reject") :
        /\ calls[c].state = "returned"
        /\ errorFlagged(calls[c].result)
        /\ calls[c].result.structuredContent.success = FALSE
        /\ "error" \in DOMAIN calls[c].result.structuredContent

\* C8: execute_tool with a name that is not in the registry returns an
\* error-flagged {success: false, error} result and invokes no handler.
UnknownNameSafety ==
    \A c \in CallIds :
        (calls[c].state # "idle" /\ ~hasTool(calls[c].toolName)) =>
            /\ calls[c].state = "returned"
            /\ errorFlagged(calls[c].result)
            /\ calls[c].result.structuredContent.success = FALSE
            /\ calls[c].result.structuredContent.error =
                   template(<<"Tool '", calls[c].toolName, "' not found">>)
            /\ calls[c].invoked = <<>>
            /\ calls[c].log = <<>>

\* C8 witness: an unknown name was answered while the registry holds tools.
UnknownNameSafetyWitness ==
    /\ Len(tools) > 0
    /\ \E c \in CallIds :
          /\ calls[c].state = "returned"
          /\ ~hasTool(calls[c].toolName)

\* C9: no meta-tool call ends with an exception leaving the facade.
NoExceptionEscapes ==
    \A c \in CallIds : calls[c].state # "threw"

\* the registered tools that have the query in their name, title or description
Candidates(q) ==
    {tools[i].name : i \in
        {i \in 1..Len(tools) :
            \/ ContainsCI(tools[i].name, q)
            \/ ContainsCI(tools[i].info.title, q)
            \/ ContainsCI(tools[i].info.description, q)}}

\* C10: searchTools returns only tools that have the query in their name, title
\* or description, and returns every such tool when their number is within the limit.
SearchMembershipAt(found, cand, l) ==
    /\ found \subseteq cand
    /\ Cardinality(cand) <= l => cand \subseteq found

SearchMembershipFor(q, cand) ==
    \A l \in Limits \cup {DefaultLimit} :
        SearchMembershipAt(NamesOf(searchTools(q, l)), cand, l)

SearchMembership ==
    \A q \in Queries : SearchMembershipFor(q, Candidates(q))

\* C10 witness: a search answered, within the limit, with every registered tool
\* that has the query in a field and without a registered tool that has it in none.
SearchMembershipWitness ==
    /\ response.op = "search_tools"
    /\ Candidates(response.query) # {}
    /\ \E i \in 1..Len(tools) : tools[i].name \notin Candidates(response.query)
    /\ Cardinality(Candidates(response.query))
            <= limitOrDefault(limitSchema(response.limit).data)
    /\ NamesOf(response.result.structuredContent.tools) = Candidates(response.query)

\* the position of the tool named n in the registry's name table
IndexOf(n) == CHOOSE i \in 1..Len(tools) : tools[i].name = n

\* 3 for the name, 2 for the title, 1 for the description, for each that has
\* the query in it, letter case ignored
RankScore(i, q) ==
      (IF ContainsCI(tools[i].name, q) THEN 3 ELSE 0)
    + (IF ContainsCI(tools[i].info.title, q) THEN 2 ELSE 0)
    + (IF ContainsCI(tools[i].info.description, q) THEN 1 ELSE 0)

RankScores(q) == [i \in 1..Len(tools) |-> RankScore(i, q)]

\* the entries of a result are in non-increasing order of the ranks given
NonIncreasing(found, ranks) ==
    \A a \in 1..Len(found) : \A b \in 1..Len(found) :
        a < b => ranks[IndexOf(found[a].name)] >= ranks[IndexOf(found[b].name)]

SearchRankingFor(q, found, ranks) ==
    /\ \A i \in 1..Len(tools) : score(tools[i], toLowerCase(q)) = ranks[i]
    /\ NonIncreasing(found, ranks)

\* C11: the score searchTools gives a tool is 3 for the name + 2 for the title
\* + 1 for the description, for each that contains the query (case ignored),
\* and in every search answered no tool of the result precedes a tool with a
\* strictly higher score.
SearchRanking ==
    response.op = "search_tools" =>
        /\ response.result.structuredContent.tools =
               searchTools(response.query, limitOrDefault(response.limit))
        /\ SearchRankingFor(response.query, response.result.structuredContent.tools,
                            RankScores(response.query))

\* C11 witness: a search was answered with a tool that was registered later
\* placed before an earlier one of strictly lower score.
SearchRankingWitness ==
    /\ response.op = "search_tools"
    /\ LET found == response.result.structuredContent.tools
           ranks == RankScores(response.query)
       IN  \E a \in 1..Len(found) : \E b \in 1..Len(found) :
              /\ a < b
              /\ IndexOf(found[a].name) > IndexOf(found[b].name)
              /\ ranks[IndexOf(found[a].name)] > ranks[IndexOf(found[b].name)]

\* the limit the caller of search_tools asked for: 20 when none is given
RequestedLimit(limit) == IF limit = Undefined THEN DefaultLimit ELSE limit.num

\* the tools of a result are the highest-scoring ones: none left out has a
\* strictly higher score than one that was returned
HighestScoring(found, ranks) ==
    \A i \in 1..Len(tools) :
        (ranks[i] > 0 /\ tools[i].name \notin NamesOf(found)) =>
            \A a \in 1..Len(found) : ranks[IndexOf(found[a].name)] >= ranks[i]

\* a result holds at most limit entries; a limit below 0 allows none
AtMost(found, limit) == found = <<>> \/ Len(found) <= limit

SearchLimitFor(q, ranks) ==
    \A l \in Limits \cup {DefaultLimit} :
        /\ AtMost(searchTools(q, l), l)
        /\ HighestScoring(searchTools(q, l), ranks)

\* C12: for every query and every limit, searchTools returns at most limit
\* entries, the highest-scoring ones; search_tools passes the caller's limit
\* through and uses 20 when none is given.
SearchLimit ==
    /\ \A q \in Queries : SearchLimitFor(q, RankScores(q))
    /\ response.op = "search_tools" =>
          response.result.structuredContent.tools =
              searchTools(response.query, RequestedLimit(response.limit))

\* the tool names the registry holds
RegisteredNames == {tools[i].name : i \in 1..Len(tools)}

\* C13: a query issued after registerTool(N, C, ...) with C predeclared
\* reflects it: listTools(C) contains N, listCategories() contains C, and the
\* empty search returns every registered tool (their number is within the limit).
DiscoveryCompleteness ==
    /\ \A j \in 1..Len(regLog) :
          regLog[j].category \in PredeclaredNames =>
              /\ regLog[j].name \in NamesOf(listTools(regLog[j].category))
              /\ regLog[j].category \in NamesOf(listCategories)
    /\ \A j \in 1..Len(regLog) : regLog[j].name \in RegisteredNames
    /\ Len(tools) <= DefaultLimit =>
          NamesOf(searchTools(<<>>, DefaultLimit)) = RegisteredNames

\* C13 witness: start-up is still registering, right after a second
\* registration that went to a different predeclared category than the first.
DiscoveryCompletenessWitness ==
    /\ pc = "registering"
    /\ Len(regLog) = 2
    /\ regLog[1].category \in PredeclaredNames
    /\ regLog[2].category \in PredeclaredNames
    /\ regLog[1].category # regLog[2].category
    /\ regLog[1].name # regLog[2].name

\* the last registerTool call that named n
LastRegistration(n) ==
    regLog[CHOOSE j \in 1..Len(regLog) :
              /\ regLog[j].name = n
              /\ \A k \in (j + 1)..Len(regLog) : regLog[k].name # n]

\* C14: getToolSchema(name) returns the registered entry when name equals a
\* registered name character for character, and null for every other name,
\* names that differ from a registered one only in letter case included.
GetToolSchemaExact ==
    /\ \A n \in NameQueries :
          IF \E j \in 1..Len(regLog) : regLog[j].name = n
          THEN /\ getToolSchema(n) # Null
               /\ getToolSchema(n).name = n
               /\ getToolSchema(n).category = LastRegistration(n).category
          ELSE getToolSchema(n) = Null
    /\ response.op = "get_tool_schema" =>
          (errorFlagged(response.result)
              <=> ~\E j \in 1..Len(regLog) : regLog[j].name = response.toolName)

\* C14 witness: get_tool_schema answered not-found for a name that differs
\* from a registered name only in letter case.
GetToolSchemaExactWitness ==
    /\ response.op = "get_tool_schema"
    /\ response.toolName = n_BAN
    /\ errorFlagged(response.result)
    /\ hasTool(n_ban)

\* C15: list_tools is error-flagged and enumerates exactly the names of
\* listCategories() when listTools(category) is empty, and otherwise carries
\* the tool summaries without the error flag.
ListToolsMetaTool ==
    response.op = "list_tools" =>
        LET result == response.result
            found  == listTools(response.category)
        IN  IF found = <<>>
            THEN /\ errorFlagged(result)
                 /\ result.structuredContent.tools = <<>>
                 /\ result.content[1].text.template[4] =
                        [i \in 1..Len(listCategories) |-> listCategories[i].name]
            ELSE /\ ~errorFlagged(result)
                 /\ result.structuredContent.tools = found
                 /\ result.content[1].text.template[4] = found

\* C15 witness: list_tools was asked for a predeclared category that has no
\* tools while another category has some.
ListToolsMetaToolWitness ==
    /\ response.op = "list_tools"
    /\ response.category = c_messaging
    /\ errorFlagged(response.result)
    /\ Len(listCategories) = 1

\* C16: a search with no matches is answered without the error flag, with an
\* empty tools list and a text saying that nothing was found; list_categories
\* and search_tools never set the error flag.
SearchToolsEmptyNotError ==
    /\ response.op \in {"search_tools", "list_categories"} =>
          ~errorFlagged(response.result)
    /\ (response.op = "search_tools" /\ Candidates(response.query) = {}) =>
          /\ response.result.structuredContent.tools = <<>>
          /\ response.result.content[1].text.template[1] = "No tools found matching '"
          /\ response.result.content[1].text.template[2] = response.query

\* C16 witness: a search that matches none of the registered tools was answered.
SearchToolsEmptyNotErrorWitness ==
    /\ response.op = "search_tools"
    /\ Len(tools) >= 2
    /\ Candidates(response.query) = {}
    /\ response.result.structuredContent.tools = <<>>

\* C17: get_tool_schema and execute_tool answer an unregistered name alike:
\* both results are error-flagged and carry the same guidance text, and a name
\* is unknown to getToolSchema exactly when it is unknown to getHandler.
UnknownNameIdentical ==
    /\ \A n \in NameQueries \cup ExecNames :
          (getToolSchema(n) = Null) <=> (getHandler(n) = Null)
    /\ \A c \in CallIds :
          (calls[c].state # "idle" /\ getHandler(calls[c].toolName) = Null) =>
              /\ errorFlagged(calls[c].result)
              /\ errorFlagged(get_tool_schema_handler(calls[c].toolName))
              /\ calls[c].result.content =
                     get_tool_schema_handler(calls[c].toolName).content

\* C17 witness: execute_tool answered an unknown name with the guidance text
\* while a call for a registered tool is in flight.
UnknownNameIdenticalWitness ==
    /\ \E c \in CallIds :
          /\ calls[c].state = "returned"
          /\ calls[c].toolName = n_none
          /\ calls[c].result.content[1].text =
                 template(<<"Tool '", n_none,
                   "' not found. Use search_tools or list_tools to find valid tool names.">>)
    /\ \E c \in CallIds : calls[c].state = "awaiting"

\* what an adapter call must leave in the registry
Forwarded(category, name, config, handler) ==
    /\ Len(regLog') = Len(regLog) + 1
    /\ regLog'[Len(regLog')] =
           [name |-> name, category |-> category, handler |-> handler]
    /\ hasTool(name)'
    /\ getToolSchema(name)' =
           [name |-> name, title |-> config.title, description |-> config.description,
            category |-> category, inputSchema |-> config.inputSchema,
            outputSchema |-> config.outputSchema]
    /\ getHandler(name)' = handler

\* C18: every registerTool call on the adapter of category C makes exactly one
\* Registry.registerTool call with that name, C, the config's title,
\* description and schemas and the same handler; afterwards hasTool(name)
\* holds and getToolSchema(name).category is C.
AdapterForwards ==
    [][\A in \in RegistrationInputs :
          RegistryAdapter_registerTool(in[2], in[1].name, in[1], [id |-> Len(regLog) + 1])
              => Forwarded(in[2], in[1].name, in[1], [id |-> Len(regLog) + 1])]_vars

\* C18 witness: the last adapter call was made on the messaging adapter and
\* the registry holds its tool under that category with its handler.
AdapterForwardsWitness ==
    /\ pc = "registering"
    /\ Len(regLog) >= 2
    /\ regLog[Len(regLog)].category = c_messaging
    /\ getToolSchema(regLog[Len(regLog)].name).category = c_messaging
    /\ getHandler(regLog[Len(regLog)].name) = regLog[Len(regLog)].handler

\* C20: every execute_tool call with a registered name has invoked exactly
\* once the handler registered under its own name, with its own parameters,
\* and a call whose handler returned has received that handler's result,
\* whatever the other calls in flight do.
OneInvocationPerCall ==
    \A c \in CallIds :
        (calls[c].state # "idle" /\ getHandler(calls[c].toolName) # Null) =>
            /\ Len(calls[c].invoked) = 1
            /\ calls[c].invoked[1].handler = getHandler(calls[c].toolName)
            /\ calls[c].invoked[1].params = calls[c].params
            /\ (calls[c].state = "returned" /\ calls[c].settled.kind = "return") =>
                   calls[c].result = calls[c].settled.value

\* C20 witness: two calls for different tools with different parameters were
\* in flight together, and one has received its result while the other is
\* still awaiting its handler.
OneInvocationPerCallWitness ==
    \E c \in CallIds, d \in CallIds :
        /\ calls[c].state = "awaiting"
        /\ calls[d].state = "returned"
        /\ calls[d].settled # Undefined
        /\ calls[d].settled.kind = "return"
        /\ calls[c].toolName # calls[d].toolName
        /\ calls[c].params # calls[d].params
        /\ calls[c].invoked[1].handler # calls[d].invoked[1].handler

\* the sequences that have ended
Ended(s) == reconnects[s].state \in {"connected", "failed"}

\* C19: a reconnect sequence that ends does so either with the manager
\* connected and the attempt counter back at 0, or with the max-attempts
\* error after at most maxReconnectAttempts attempts of its own.
AutoReconnect ==
    \A s \in 1..Len(reconnects) :
        /\ reconnects[s].state = "connected" =>
               reconnects[s].end = [connected |-> TRUE, reconnectAttempts |-> 0]
        /\ reconnects[s].made <= maxReconnectAttempts

\* every reconnect sequence ends, once timers fire and logins settle
ReconnectTerminates ==
    \A s \in 1..MaxDisconnects :
        (Len(reconnects) >= s) ~> (Len(reconnects) >= s /\ Ended(s))

\* the calls whose handler threw or rejected
Faulted == SettledAs("throw") \cup SettledAs("reject")

\* the entries of level error written for a call
ErrorEntries(configured, c) ==
    LET isError(entry) == entry.level = "error"
    IN  SelectSeq(written(configured, calls[c].log), isError)

\* C21: whatever level the logger is configured with, a fault escaping a
\* handler is logged once by execute_tool, and the logged event carries the
\* failing tool's name and the parameters of the call.
FaultLogged ==
    \A configured \in ConfiguredLevels :
        \A c \in Faulted :
            /\ Len(ErrorEntries(configured, c)) = 1
            /\ ErrorEntries(configured, c)[1].context.toolName = calls[c].toolName
            /\ "params" \in DOMAIN ErrorEntries(configured, c)[1].context
            /\ ErrorEntries(configured, c)[1].context.params = calls[c].params

\* the names whose entry of the name table records a category that is not
\* predeclared
UnknownCategoryTools ==
    {n \in RegisteredNames : getToolSchema(n).category \notin PredeclaredNames}

\* the registerTool calls so far that named a predeclared category
CountedRegistrations(c) == Cardinality(RegisteredUnder(c))

\* C22: registerTool never raises (every call is accepted), and a tool whose
\* category is not predeclared is found by getToolSchema, getHandler, hasTool
\* and searchTools, is returned by listTools for no category, and has changed
\* no category's count or visibility.
UnknownCategoryAbsorbed ==
    /\ (pc = "registering" /\ Len(regLog) < MaxRegs)
          => \A in \in RegistrationInputs : ENABLED AdapterRegister({in})
    /\ \A n \in UnknownCategoryTools :
          /\ hasTool(n)
          /\ getToolSchema(n) # Null
          /\ getHandler(n) # Null
          /\ n \in NamesOf(searchTools(n, DefaultLimit))
          /\ \A c \in CategoryQueries \cup PredeclaredNames :
                n \notin NamesOf(listTools(c))
    /\ \A c \in PredeclaredNames :
          /\ mapGet(categories, c).toolCount = CountedRegistrations(c)
          /\ (c \in NamesOf(listCategories)) <=> (CountedRegistrations(c) > 0)

\* the part of C22 that holds: the same with the names restricted to those
\* that no registerTool call has indexed under a predeclared category
UnknownCategoryAbsorbedFresh ==
    \A n \in UnknownCategoryTools :
        (\A j \in 1..Len(regLog) :
            regLog[j].name = n => regLog[j].category \notin PredeclaredNames)
        => /\ hasTool(n)
           /\ getToolSchema(n) # Null
           /\ getHandler(n) # Null
           /\ n \in NamesOf(searchTools(n, DefaultLimit))
           /\ \A c \in CategoryQueries \cup PredeclaredNames :
                 n \notin NamesOf(listTools(c))

Occurrences(seq, x) == Cardinality({i \in 1..Len(seq) : seq[i] = x})

\* the registerTool calls that named n and the category c
CallsFor(n, c) ==
    {k \in 1..Len(regLog) : regLog[k].name = n /\ regLog[k].category = c}

\* the names whose entry of the name table records the category c
ToolsOfCategory(c) == {n \in RegisteredNames : getToolSchema(n).category = c}

\* the registerTool calls whose name an earlier call had used
Repeats ==
    {j \in 1..Len(regLog) : \E i \in 1..(j - 1) : regLog[i].name = regLog[j].name}

\* C23: when registerTool is called again with a name already used, the name
\* table holds the later call's entry and handler, the index of the call's
\* category has one entry per call, and the toolCount of a category that
\* indexed a replaced registration exceeds the number of distinct tools of
\* that category in the name table.
DuplicateNames ==
    \A j \in Repeats :
        LET n == regLog[j].name
        IN  /\ getHandler(n) = LastRegistration(n).handler
            /\ getToolSchema(n).category = LastRegistration(n).category
            /\ \A i \in 1..(j - 1) :
                  regLog[i].name = n => getHandler(n) # regLog[i].handler
            /\ regLog[j].category \in PredeclaredNames =>
                  Occurrences(mapGet(toolsByCategory, regLog[j].category).toolNames, n)
                      = Cardinality(CallsFor(n, regLog[j].category))
            /\ \A i \in 1..(j - 1) :
                  (regLog[i].name = n /\ regLog[i].category \in PredeclaredNames) =>
                      mapGet(categories, regLog[i].category).toolCount
                          > Cardinality(ToolsOfCategory(regLog[i].category))

\* C23 witness: ban registered twice under moderation: the second handler is
\* the one returned, the category lists the name twice and counts 2 tools
\* while the name table has one tool of that category.
DuplicateNamesWitness ==
    /\ Cardinality(CallsFor(n_ban, c_moderation)) = 2
    /\ Len(regLog) = 2
    /\ getHandler(n_ban) = [id |-> 2]
    /\ Occurrences(mapGet(toolsByCategory, c_moderation).toolNames, n_ban) = 2
    /\ mapGet(categories, c_moderation).toolCount = 2
    /\ ToolsOfCategory(c_moderation) = {n_ban}

\* C24: a registration happens only before the meta-tools are registered, the
\* meta-tools are registered in one step before the transport is connected,
\* and a request is answered only once the transport is connected, with the
\* five meta-tools in place and a registry that no later step changes.
StartupOrdering ==
    [][/\ regLog' # regLog => (pc = "registering" /\ serverTools = <<>>)
       /\ serverTools' # serverTools =>
             (pc = "registering" /\ pc' = "metaRegistered"
                /\ serverTools' = MetaToolNames)
       /\ pc' = "serving" => (pc \in {"metaRegistered", "serving"}
                                /\ serverTools = MetaToolNames)
       /\ (response' # response /\ response' # NoResponse) =>
             (pc = "serving" /\ serverTools = MetaToolNames)
       /\ pc # "registering" =>
             UNCHANGED <<tools, categories, toolsByCategory, regLog>>]_vars

\* C24 witness: a search_tools request answered by the connected server after
\* two registrations and the registration of the meta-tools.
StartupOrderingWitness ==
    /\ pc = "serving"
    /\ response # NoResponse
    /\ response.op = "search_tools"
    /\ Len(regLog) >= 2
    /\ serverTools = MetaToolNames

\* the handler an execute_tool call was given: null when the call was answered
\* that the tool is not known
GivenHandler(c) ==
    IF Len(calls[c].invoked) = 0 THEN Null ELSE calls[c].invoked[1].handler

\* C25: once requests are served, no step of any of the five meta-tools (a
\* discovery request, a request sent again, an execute_tool call starting or
\* settling) changes the tool table, the category table or the per-category
\* index, nor what listCategories, getToolSchema and getHandler return; a
\* request sent a second time gets the answer the first one got, whatever
\* steps lie between the two, and getHandler keeps returning for a name what
\* an execute_tool call for that name was given.
ReadOnlyRegistry ==
    [][/\ pc = "serving" =>
             /\ UNCHANGED <<tools, categories, toolsByCategory>>
             /\ listCategories' = listCategories
             /\ \A n \in NameQueries \cup ExecNames :
                   /\ getToolSchema(n)' = getToolSchema(n)
                   /\ getHandler(n)' = getHandler(n)
       /\ "first" \in DOMAIN response' => response'.result = response'.first
       /\ \A c \in CallIds :
             calls'[c].state # "idle" =>
                 (GivenHandler(c) = getHandler(calls[c].toolName))']_vars

\* C25 witness: list_tools answered a second time for a category with two
\* tools, with an execute_tool call for a registered tool that has returned.
ReadOnlyRegistryWitness ==
    /\ response.op = "list_tools"
    /\ "first" \in DOMAIN response
    /\ ~errorFlagged(response.result)
    /\ Len(response.result.structuredContent.tools) = 2
    /\ \E c \in CallIds :
          /\ calls[c].state = "returned"
          /\ GivenHandler(c) # Null

\* the fields of a ToolInfo
ToolInfoFields ==
    {"name", "title", "description", "category", "inputSchema", "outputSchema"}

\* C26: a discovery request invokes no handler, the entry getToolSchema
\* returns has the two schemas and no handler, and the structured content of
\* a get_tool_schema answer has the two schemas and no handler.
HandlersOnlyThroughExecute ==
    [][/\ (response' # response /\ response' # NoResponse) => UNCHANGED calls
       /\ \A n \in RegisteredNames :
             /\ DOMAIN getToolSchema(n) = ToolInfoFields
             /\ getHandler(n) # Null
             /\ "inputSchema" \in DOMAIN getToolSchema(n)
             /\ "outputSchema" \in DOMAIN getToolSchema(n)
             /\ "handler" \notin DOMAIN getToolSchema(n)
       /\ (response.op = "get_tool_schema" /\ ~errorFlagged(response.result)) =>
             /\ DOMAIN response.result.structuredContent = ToolInfoFields
             /\ "handler" \notin DOMAIN response.result.structuredContent]_vars

\* C26 witness: get_tool_schema answered with the entry of a tool that has a
\* handler, and no execute_tool call has invoked anything.
HandlersOnlyThroughExecuteWitness ==
    /\ response # NoResponse
    /\ response.op = "get_tool_schema"
    /\ ~errorFlagged(response.result)
    /\ getHandler(response.toolName) = [id |-> 1]
    /\ "inputSchema" \in DOMAIN response.result.structuredContent
    /\ \A c \in CallIds : calls[c] = IdleCall

\* C27: every name that listTools returns for a predeclared category has an
\* entry in the name table whose category is that category, and no name is
\* listed under two categories.
ListedUnderOwnCategory ==
    \A c \in PredeclaredNames :
        \A n \in NamesOf(listTools(c)) :
            /\ getToolSchema(n) # Null
            /\ getToolSchema(n).category = c
            /\ \A d \in PredeclaredNames \ {c} : n \notin NamesOf(listTools(d))

\* the position of the first registerTool call that named n
FirstRegistered(n) ==
    CHOOSE j \in 1..Len(regLog) :
        /\ regLog[j].name = n
        /\ \A k \in 1..(j - 1) : regLog[k].name # n

\* entries of equal rank are in the order their names were first registered
TieOrder(found, ranks) ==
    \A a \in 1..Len(found) : \A b \in 1..Len(found) :
        (a < b /\ ranks[IndexOf(found[a].name)] = ranks[IndexOf(found[b].name)])
            => FirstRegistered(found[a].name) < FirstRegistered(found[b].name)

\* C28: in every search answered, results of equal score are in the order in
\* which their names were first registered, and the same query asked again of
\* the registry returns the same sequence.
SearchTieOrder ==
    response.op = "search_tools" =>
        /\ TieOrder(response.result.structuredContent.tools, RankScores(response.query))
        /\ searchTools(response.query, limitOrDefault(response.limit))
               = response.result.structuredContent.tools

\* C28 witness: a search answered with two tools of equal score where the
\* first one was registered again after the second one was registered.
SearchTieOrderWitness ==
    /\ response.op = "search_tools"
    /\ LET found == response.result.structuredContent.tools
           ranks == RankScores(response.query)
       IN  \E a \in 1..Len(found) : \E b \in 1..Len(found) :
              /\ a < b
              /\ ranks[IndexOf(found[a].name)] = ranks[IndexOf(found[b].name)]
              /\ \E k \in 1..Len(regLog) :
                    /\ regLog[k].name = found[a].name
                    /\ k > FirstRegistered(found[b].name)

\* a step in which a reconnect sequence makes an attempt: attemptReconnect gets
\* past its check and goes to sleep in its backoff
AttemptMade ==
    \E s \in 1..Len(reconnects') :
        reconnects'[s].made
            = (IF s <= Len(reconnects) THEN reconnects[s].made ELSE 0) + 1

\* C29: the attempt counter stays within 0..maxReconnectAttempts under every
\* interleaving, a step raises it exactly when a reconnect attempt is made and
\* then by 1, and a login that succeeds or a shard that resumes sets it to 0;
\* nothing else changes it.
ReconnectCounter ==
    [][/\ manager.reconnectAttempts \in 0..maxReconnectAttempts
       /\ manager'.reconnectAttempts \in 0..maxReconnectAttempts
       /\ AttemptMade <=> manager'.reconnectAttempts = manager.reconnectAttempts + 1
       /\ (LoginResolves \/ ShardResume) => manager'.reconnectAttempts = 0
       /\ manager'.reconnectAttempts # manager.reconnectAttempts =>
             (AttemptMade \/ LoginResolves \/ ShardResume)]_vars

\* C29 witness: a reconnect sequence made maxReconnectAttempts attempts, its
\* last login succeeded, and the counter is back at 0.
ReconnectCounterWitness ==
    /\ manager.reconnectAttempts = 0
    /\ manager.connected
    /\ \E s \in 1..Len(reconnects) :
          /\ reconnects[s].state = "connected"
          /\ reconnects[s].made = maxReconnectAttempts
          /\ reconnects[s].end = [connected |-> TRUE, reconnectAttempts |-> 0]

\* C30: once the owner's disconnect() has completed, no reconnect attempt
\* creates a client or sets connected again: the manager has no client,
\* connected is false, isConnected() is false and getClient() throws
\* DiscordNotConnectedError.
StaysDisconnected ==
    owner = "disconnected" =>
        /\ manager.client = Null
        /\ ~manager.connected
        /\ ~isConnected
        /\ getClient = [throws |-> DiscordNotConnectedError]

\* the manager is connected again after the owner's disconnect(), with a
\* client that a reconnect attempt created
ConnectedAfterDisconnect ==
    /\ owner = "disconnected"
    /\ isConnected
    /\ "returns" \in DOMAIN getClient

====
